---- MODULE Spec2Model ----
(***************************************************************************)
(* A model of the segregated-free-list heap allocator of allocator.c.      *)
(*                                                                         *)
(* The process's memory is modelled as a sparse map from 4-byte-aligned    *)
(* byte addresses to 32-bit words: the 30 head slots of free_list live at  *)
(* FreeListBase, the heap segment at heap_start.  A word that was never    *)
(* written reads as `junk', an indeterminate value fixed at start-up.      *)
(* Pointers are 4 bytes wide (PTR_SIZE), as the block layout requires.     *)
(***************************************************************************)
EXTENDS Integers, Sequences, FiniteSets, TLC

(* ---- program constants (allocator.c) ---- *)
ALIGNMENT == 8
PTR_SIZE == 4
HDR_SIZE == 4
FTR_SIZE == 4
HDR_FTR_SIZE == 8
MIN_BLK_SZ == 12
INIT_NPAGES == 3
NBUCKETS == 30
FREE == 0
ALLOC == 1
REALLOC_MULT == 1
BUCKET_CUTOFF == 5
NULL == 0

(* ---- the segment provider's page size (segment.h) ---- *)
PAGE_SIZE == 4096

(* Words are 32 bits wide in the program.  Every value the bounded heap  *)
(* can hold (sizes, addresses, header words) is far below 2^31, so no     *)
(* arithmetic of the model wraps and the words are plain naturals.        *)

(* ---- address layout of the modelled process ---- *)
FreeListBase == 64          \* address of free_list[0]
HeapBase == 4096            \* base returned by init_heap_segment

(* ---- bounds of the model ---- *)
MaxLive == 2                \* blocks the client holds (or has leaked) at once
MaxPages == 6               \* pages the segment provider is able to grant
MaxStores == 1              \* client stores into payloads per behaviour
MaxOps == 4                 \* calls the client makes after myinit

ReqSizes == {1, 18, 12244}         \* request sizes the client uses
JunkValues == {0, 2147483647}       \* contents of never-written memory
StoreValues == {287454020}          \* 0x11223344, the word a client stores

VARIABLES mem, heap_start, seg_size, junk, live, leaked, phase, call, ret, nstores, nops,
          hist

vars == <<mem, heap_start, seg_size, junk, live, leaked, phase, call, ret, nstores,
          nops, hist>>

(***************************************************************************)
(* Raw memory                                                              *)
(***************************************************************************)
get(m, p) == IF p \in DOMAIN m THEN m[p] ELSE junk

put(m, p, v) == IF p \in DOMAIN m THEN [m EXCEPT ![p] = v] ELSE (p :> v) @@ m

FreeListAddr(b) == FreeListBase + PTR_SIZE * b

free_list_at(m, b) == get(m, FreeListAddr(b))

(***************************************************************************)
(* Block manipulation functions                                            *)
(***************************************************************************)
get_hdr_addr(bp) == bp - HDR_SIZE

get_size(m, p) == get(m, p) \div 4

set_size(m, p, size) == put(m, p, (get(m, p) % 4) + size * 4)

get_hdr_size(m, bp) == get_size(m, get_hdr_addr(bp))

set_hdr_size(m, bp, size) == set_size(m, get_hdr_addr(bp), size)

get_curr_alloc(m, bp) == get(m, get_hdr_addr(bp)) % 2

set_curr_alloc(m, bp, curr_alloc) ==
    LET h == get(m, get_hdr_addr(bp))
    IN  put(m, get_hdr_addr(bp), (h - (h % 2)) + curr_alloc)

get_prev_alloc(m, bp) == (get(m, get_hdr_addr(bp)) \div 2) % 2

set_prev_alloc(m, bp, prev_alloc) ==
    LET h == get(m, get_hdr_addr(bp))
    IN  put(m, get_hdr_addr(bp), (h - 2 * ((h \div 2) % 2)) + 2 * prev_alloc)

get_next_block(m, bp) == bp + get_hdr_size(m, bp) + HDR_SIZE

get_prev_block(m, bp) == bp - HDR_SIZE - get_size(m, bp - HDR_FTR_SIZE)

get_next(m, bp) == get(m, bp)

set_next(m, bp, next_bp) == put(m, bp, next_bp)

get_prev(m, bp) == get(m, bp + PTR_SIZE)

set_prev(m, bp, prev_bp) == put(m, bp + PTR_SIZE, prev_bp)

write_header(m, bp, size, curr_alloc, prev_alloc) ==
    set_prev_alloc(set_curr_alloc(set_hdr_size(m, bp, size), bp, curr_alloc),
                   bp, prev_alloc)

get_ftr_addr(m, bp) == bp + get_hdr_size(m, bp) - FTR_SIZE

\* mutant: the footer is never written
write_footer_skipped(m, bp) == m

write_footer(m, bp) == put(m, get_ftr_addr(m, bp), get(m, get_hdr_addr(bp)))

\* mutant: the size is rounded down to a multiple
roundup_truncates(sz, mult) == (sz \div mult) * mult

roundup(sz, mult) == ((sz + mult - 1) \div mult) * mult

\* mutant: the request is not rounded to the block grid
adjust_block_size_unrounded(requestedsz) ==
    IF requestedsz <= MIN_BLK_SZ THEN MIN_BLK_SZ ELSE requestedsz

\* mutant: the request itself is rounded up to a multiple of 8
adjust_block_size_multiple_of_8(requestedsz) ==
    IF requestedsz <= MIN_BLK_SZ THEN MIN_BLK_SZ
    ELSE roundup(requestedsz, ALIGNMENT)

adjust_block_size(requestedsz) ==
    IF requestedsz <= MIN_BLK_SZ THEN MIN_BLK_SZ
    ELSE roundup(requestedsz - 4, ALIGNMENT) + 4

(***************************************************************************)
(* Segregated free list functions                                          *)
(***************************************************************************)
RECURSIVE BitLen(_)
BitLen(x) == IF x = 0 THEN 0 ELSE 1 + BitLen(x \div 2)

\* __builtin_clz on a 32-bit unsigned; the allocator only passes sizes >= 12
clz(x) == 32 - BitLen(x)

\* mutant: one leading zero too few is subtracted
get_bucket_num_off_by_one(size) == NBUCKETS - clz(size) - 1

get_bucket_num(size) == NBUCKETS - clz(size) - 2

\* mutant: the first block of a list is taken whatever its size
scan_bucket_any_size(m, curr, n_blocks_examined, target_size) ==
    IF curr = NULL THEN NULL
    ELSE IF n_blocks_examined = BUCKET_CUTOFF THEN NULL
    ELSE curr

\* mutant: six nodes of a bucket are examined before the scan gives up
RECURSIVE scan_bucket_examines_six(_, _, _, _)
scan_bucket_examines_six(m, curr, n_blocks_examined, target_size) ==
    IF curr = NULL THEN NULL
    ELSE IF n_blocks_examined = BUCKET_CUTOFF + 1 THEN NULL
    ELSE IF get_hdr_size(m, curr) >= target_size THEN curr
    ELSE scan_bucket_examines_six(m, get_next(m, curr), n_blocks_examined + 1,
                                  target_size)

RECURSIVE scan_bucket(_, _, _, _)
scan_bucket(m, curr, n_blocks_examined, target_size) ==
    IF curr = NULL THEN NULL
    ELSE IF n_blocks_examined = BUCKET_CUTOFF THEN NULL
    ELSE IF get_hdr_size(m, curr) >= target_size THEN curr
    ELSE scan_bucket(m, get_next(m, curr), n_blocks_examined + 1, target_size)

RECURSIVE scan_buckets(_, _, _)
scan_buckets(m, i, target_size) ==
    IF i >= NBUCKETS THEN NULL
    ELSE LET found == scan_bucket(m, free_list_at(m, i), 0, target_size)
         IN  IF found # NULL THEN found
             ELSE scan_buckets(m, i + 1, target_size)

\* mutant: only the bucket of the target size is searched, no larger one
first_fit_own_bucket_only(m, target_size) ==
    scan_bucket(m, free_list_at(m, get_bucket_num(target_size)), 0, target_size)

\* mutant: the search starts one bucket above the bucket of the target
first_fit_skips_own_bucket(m, target_size) ==
    scan_buckets(m, get_bucket_num(target_size) + 1, target_size)

first_fit(m, target_size) ==
    scan_buckets(m, get_bucket_num(target_size), target_size)

\* mutant: the old first node's prev is not pointed at the new node
insert_free_list_no_back_link(m, free_block) ==
    LET size == get_hdr_size(m, free_block)
        bucket_num == get_bucket_num(size)
        next_block == free_list_at(m, bucket_num)
        m1 == set_next(m, free_block, next_block)
        m2 == set_prev(m1, free_block, FreeListAddr(bucket_num))
    IN  put(m2, FreeListAddr(bucket_num), free_block)

insert_free_list(m, free_block) ==
    LET size == get_hdr_size(m, free_block)
        bucket_num == get_bucket_num(size)
        next_block == free_list_at(m, bucket_num)
        m1 == set_next(m, free_block, next_block)
        m2 == set_prev(m1, free_block, FreeListAddr(bucket_num))
        m3 == IF next_block # NULL THEN set_prev(m2, next_block, free_block)
              ELSE m2
    IN  put(m3, FreeListAddr(bucket_num), free_block)

remove_free_list(m, free_block) ==
    LET prev_block == get_prev(m, free_block)
        next_block == get_next(m, free_block)
        m1 == set_next(m, prev_block, next_block)
    IN  IF next_block # NULL THEN set_prev(m1, next_block, prev_block)
        ELSE m1

\* mutant: a block that changed size stays in its old list
update_bucket_never(m, free_block, old_size, new_size) == m

update_bucket(m, free_block, old_size, new_size) ==
    IF get_bucket_num(old_size) # get_bucket_num(new_size)
    THEN insert_free_list(remove_free_list(m, free_block), free_block)
    ELSE m

(***************************************************************************)
(* Segment provider (segment.h): page-granular reservation and extension.  *)
(* `grant' is the provider's answer when it is still able to grant pages.  *)
(***************************************************************************)
init_heap_segment(npages, grant) ==
    IF grant /\ npages <= MaxPages THEN HeapBase ELSE NULL

extend_heap_segment(seg, npages, grant) ==
    IF grant /\ (seg \div PAGE_SIZE) + npages <= MaxPages
    THEN heap_start + seg
    ELSE NULL

(***************************************************************************)
(* libc                                                                    *)
(***************************************************************************)
\* memcpy of n bytes on a little-endian machine; dst and src are word
\* aligned.  Only words mapped on either side need to be written: a word
\* mapped on neither side is junk on both.
\* mutant: only whole words are copied, the trailing n % 4 bytes are not
memcpy_whole_words(m, dst, src, n) ==
    LET nw == n - (n % 4)
        touched == {a \in DOMAIN m : a >= dst /\ a < dst + nw}
                   \cup {dst + (x - src) :
                           x \in {y \in DOMAIN m : y >= src /\ y < src + nw}}
    IN  [a \in DOMAIN m \cup touched |->
            IF a \in touched THEN get(m, src + (a - dst)) ELSE m[a]]

memcpy(m, dst, src, n) ==
    LET touched == {a \in DOMAIN m : a >= dst /\ a < dst + n}
                   \cup {dst + (x - src) :
                           x \in {y \in DOMAIN m : y >= src /\ y < src + n}}
        word(a) == LET s  == get(m, src + (a - dst))
                       d  == get(m, a)
                       nb == IF a + 4 <= dst + n THEN 4 ELSE dst + n - a
                       p  == 256 ^ nb
                   IN  IF nb = 4 THEN s ELSE (s % p) + (d - (d % p))
    IN  [a \in DOMAIN m \cup touched |->
            IF a \in touched THEN word(a) ELSE m[a]]

\* free() of the C library called on a pointer it never returned: undefined
\* behaviour.  The library either detects the foreign chunk and aborts the
\* process, or returns; when it returns it may have stored its own list
\* words over the first two words of the payload.  The allocator's headers,
\* footers and lists are not the library's, and stay as they are.
LibcFreeOutcomes == {"abort", "return", "scribble"}

libc_free(m, ptr, outcome) ==
    IF outcome = "scribble" THEN put(put(m, ptr, 0), ptr + PTR_SIZE, 0)
    ELSE m

(***************************************************************************)
(* Allocator functions                                                     *)
(***************************************************************************)
\* mutant: the epilogue header is written with prev_alloc = allocated
myinit_epilogue_prev_allocated(m, base) ==
    LET npages == INIT_NPAGES
        m0 == [a \in DOMAIN m |->
                 IF a >= FreeListBase /\ a < FreeListBase + PTR_SIZE * NBUCKETS
                 THEN NULL ELSE m[a]]
        free_block == base + ALIGNMENT
        m1 == write_header(m0, free_block,
                           (npages * PAGE_SIZE) - ALIGNMENT - HDR_SIZE, FREE, ALLOC)
        m2 == write_footer(m1, free_block)
        m3 == insert_free_list(m2, free_block)
        epilogue_hdr == get_next_block(m3, free_block)
    IN  write_header(m3, epilogue_hdr, 0, ALLOC, ALLOC)

myinit(m, base) ==
    LET npages == INIT_NPAGES
        m0 == [a \in DOMAIN m |->
                 IF a >= FreeListBase /\ a < FreeListBase + PTR_SIZE * NBUCKETS
                 THEN NULL ELSE m[a]]
        free_block == base + ALIGNMENT
        m1 == write_header(m0, free_block,
                           (npages * PAGE_SIZE) - ALIGNMENT - HDR_SIZE, FREE, ALLOC)
        m2 == write_footer(m1, free_block)
        m3 == insert_free_list(m2, free_block)
        epilogue_hdr == get_next_block(m3, free_block)
    IN  write_header(m3, epilogue_hdr, 0, ALLOC, FREE)

\* mutant: the remainder is sized without the header of the block carved
\* out of it, which therefore starts and ends 4 bytes too high
split_block_no_header_room(m, block, malloc_bytes, free_bytes) ==
    LET m1 == set_hdr_size(m, block, free_bytes + HDR_SIZE)
        m2 == set_curr_alloc(m1, block, FREE)
        m3 == write_footer(m2, block)
        m4 == insert_free_list(m3, block)
        malloc_block == get_next_block(m4, block)
        m5 == write_header(m4, malloc_block, malloc_bytes, ALLOC, FREE)
        next_block == get_next_block(m5, malloc_block)
    IN  [mem |-> set_prev_alloc(m5, next_block, ALLOC), ret |-> malloc_block]

\* mutant: the allocated block is carved from the low end of the block and
\* the free remainder follows it
split_block_alloc_low(m, block, malloc_bytes, free_bytes) ==
    LET m1 == set_hdr_size(m, block, malloc_bytes)
        m2 == set_curr_alloc(m1, block, ALLOC)
        free_block == get_next_block(m2, block)
        m3 == write_header(m2, free_block, free_bytes, FREE, ALLOC)
        m4 == write_footer(m3, free_block)
    IN  [mem |-> insert_free_list(m4, free_block), ret |-> block]

\* mutant: the allocated half is written with prev_alloc = allocated
split_block_prev_alloc_set(m, block, malloc_bytes, free_bytes) ==
    LET m1 == set_hdr_size(m, block, free_bytes)
        m2 == set_curr_alloc(m1, block, FREE)
        m3 == write_footer(m2, block)
        m4 == insert_free_list(m3, block)
        malloc_block == get_next_block(m4, block)
        m5 == write_header(m4, malloc_block, malloc_bytes, ALLOC, ALLOC)
        next_block == get_next_block(m5, malloc_block)
    IN  [mem |-> set_prev_alloc(m5, next_block, ALLOC), ret |-> malloc_block]

split_block(m, block, malloc_bytes, free_bytes) ==
    LET m1 == set_hdr_size(m, block, free_bytes)
        m2 == set_curr_alloc(m1, block, FREE)
        m3 == write_footer(m2, block)
        m4 == insert_free_list(m3, block)
        malloc_block == get_next_block(m4, block)
        m5 == write_header(m4, malloc_block, malloc_bytes, ALLOC, FREE)
        next_block == get_next_block(m5, malloc_block)
    IN  [mem |-> set_prev_alloc(m5, next_block, ALLOC), ret |-> malloc_block]

\* mutant: no epilogue header is written behind the appended pages
format_new_pages_no_epilogue(m, block, nbytes) ==
    LET merged == get_prev_alloc(m, block) = FREE
        prev_block == get_prev_block(m, block)
        prev_size == get_hdr_size(m, prev_block)
        totalsz == prev_size + nbytes
        ma == update_bucket(write_footer(set_hdr_size(m, prev_block, totalsz),
                                         prev_block),
                            prev_block, prev_size, totalsz)
        mb == insert_free_list(
                 write_footer(
                    set_curr_alloc(set_hdr_size(m, block, nbytes - HDR_SIZE),
                                   block, FREE),
                    block),
                 block)
    IN  [mem |-> IF merged THEN ma ELSE mb,
         block |-> IF merged THEN prev_block ELSE block]

\* mutant: a free last block grows over the new pages without a new footer
format_new_pages_stale_footer(m, block, nbytes) ==
    LET merged == get_prev_alloc(m, block) = FREE
        prev_block == get_prev_block(m, block)
        prev_size == get_hdr_size(m, prev_block)
        totalsz == prev_size + nbytes
        ma == update_bucket(set_hdr_size(m, prev_block, totalsz),
                            prev_block, prev_size, totalsz)
        mb == insert_free_list(
                 write_footer(
                    set_curr_alloc(set_hdr_size(m, block, nbytes - HDR_SIZE),
                                   block, FREE),
                    block),
                 block)
        m1 == IF merged THEN ma ELSE mb
        blk == IF merged THEN prev_block ELSE block
        epilogue_hdr == get_next_block(m1, blk)
    IN  [mem |-> write_header(m1, epilogue_hdr, 0, ALLOC, FREE), block |-> blk]

\* mymalloc, lines 502-522: format the pages just appended behind the old
\* epilogue `block' as free space and write the new epilogue header
format_new_pages(m, block, nbytes) ==
    LET merged == get_prev_alloc(m, block) = FREE
        prev_block == get_prev_block(m, block)
        prev_size == get_hdr_size(m, prev_block)
        totalsz == prev_size + nbytes
        ma == update_bucket(write_footer(set_hdr_size(m, prev_block, totalsz),
                                         prev_block),
                            prev_block, prev_size, totalsz)
        mb == insert_free_list(
                 write_footer(
                    set_curr_alloc(set_hdr_size(m, block, nbytes - HDR_SIZE),
                                   block, FREE),
                    block),
                 block)
        m1 == IF merged THEN ma ELSE mb
        blk == IF merged THEN prev_block ELSE block
        epilogue_hdr == get_next_block(m1, blk)
    IN  [mem |-> write_header(m1, epilogue_hdr, 0, ALLOC, FREE), block |-> blk]

\* mutant: a whole-block allocation leaves the successor's prev_alloc bit
place_stale_prev_alloc(m, block, adjustedsz) ==
    LET totalsz == get_hdr_size(m, block)
        free_bytes == totalsz - adjustedsz - HDR_SIZE
    IN  IF free_bytes < MIN_BLK_SZ
        THEN [mem |-> remove_free_list(set_curr_alloc(m, block, ALLOC), block),
              ret |-> block]
        ELSE split_block(remove_free_list(m, block), block, adjustedsz, free_bytes)

\* mymalloc, lines 525-539: whole-block allocation or split
place(m, block, adjustedsz) ==
    LET totalsz == get_hdr_size(m, block)
        free_bytes == totalsz - adjustedsz - HDR_SIZE
    IN  IF free_bytes < MIN_BLK_SZ
        THEN LET m1 == set_curr_alloc(m, block, ALLOC)
                 m2 == set_prev_alloc(m1, get_next_block(m1, block), ALLOC)
             IN  [mem |-> remove_free_list(m2, block), ret |-> block]
        ELSE split_block(remove_free_list(m, block), block, adjustedsz, free_bytes)

\* mymalloc, lines 511-539: placement in the block the new pages were
\* formatted into
place_formatted(f, adjustedsz) == place(f.mem, f.block, adjustedsz)

\* mymalloc, lines 494-539: no block was found (block = NULL), so the heap
\* is extended and the new pages are formatted; then the block is placed
mymalloc_place(m, seg, adjustedsz, block, nbytes, fresh) ==
    IF block # NULL THEN [seg |-> seg] @@ place(m, block, adjustedsz)
    ELSE IF fresh = NULL THEN [mem |-> m, seg |-> seg, ret |-> NULL]
    ELSE [seg |-> seg + nbytes]
         @@ place_formatted(format_new_pages(m, fresh, nbytes), adjustedsz)

\* mymalloc, lines 483-500: search, and ask the provider when nothing fits
mymalloc_adjusted(m, seg, adjustedsz, nbytes, grant) ==
    mymalloc_place(m, seg, adjustedsz, first_fit(m, adjustedsz), nbytes,
                   extend_heap_segment(seg, nbytes \div PAGE_SIZE, grant))

\* mutant: a request of 0 bytes is served like any other
mymalloc_zero_allocates(m, seg, requestedsz, grant) ==
    mymalloc_adjusted(m, seg, adjust_block_size(requestedsz),
                      roundup(adjust_block_size(requestedsz), PAGE_SIZE), grant)

mymalloc(m, seg, requestedsz, grant) ==
    IF requestedsz = 0 THEN [mem |-> m, seg |-> seg, ret |-> NULL]
    ELSE mymalloc_adjusted(m, seg, adjust_block_size(requestedsz),
                           roundup(adjust_block_size(requestedsz), PAGE_SIZE), grant)

\* mutant: a merge with the free predecessor alone does not count the
\* header between the two blocks
coalesce_merge_drops_header(m, curr_block) ==
    LET next_block == get_next_block(m, curr_block)
        prev_alloc == get_prev_alloc(m, curr_block) = ALLOC
        next_alloc == get_curr_alloc(m, next_block) = ALLOC
        curr_size == get_hdr_size(m, curr_block)
        next_size == get_hdr_size(m, next_block)
        prev_block == get_prev_block(m, curr_block)
        prev_size == get_hdr_size(m, prev_block)
    IN  IF prev_alloc /\ next_alloc
        THEN LET m1 == set_curr_alloc(m, curr_block, FREE)
                 m2 == write_footer(m1, curr_block)
                 m3 == set_prev_alloc(m2, next_block, FREE)
             IN  [mem |-> insert_free_list(m3, curr_block), result |-> curr_block]
        ELSE IF prev_alloc /\ ~next_alloc
        THEN LET new_size == curr_size + next_size + HDR_SIZE
                 m1 == set_hdr_size(m, curr_block, new_size)
                 m2 == set_curr_alloc(m1, curr_block, FREE)
                 m3 == write_footer(m2, curr_block)
                 m4 == insert_free_list(m3, curr_block)
             IN  [mem |-> remove_free_list(m4, next_block), result |-> curr_block]
        ELSE IF ~prev_alloc /\ next_alloc
        THEN LET new_size == prev_size + curr_size
                 m1 == set_hdr_size(m, prev_block, new_size)
                 m2 == write_footer(m1, prev_block)
                 m3 == update_bucket(m2, prev_block, prev_size, new_size)
             IN  [mem |-> set_prev_alloc(m3, next_block, FREE), result |-> prev_block]
        ELSE LET new_size == prev_size + curr_size + next_size + 2 * HDR_SIZE
                 m1 == set_hdr_size(m, prev_block, new_size)
                 m2 == write_footer(m1, prev_block)
                 m3 == update_bucket(m2, prev_block, prev_size, new_size)
             IN  [mem |-> remove_free_list(m3, next_block), result |-> prev_block]

\* mutant: a block freed between two allocated blocks is not put into the
\* index
coalesce_case1_not_indexed(m, curr_block) ==
    LET next_block == get_next_block(m, curr_block)
        prev_alloc == get_prev_alloc(m, curr_block) = ALLOC
        next_alloc == get_curr_alloc(m, next_block) = ALLOC
        curr_size == get_hdr_size(m, curr_block)
        next_size == get_hdr_size(m, next_block)
        prev_block == get_prev_block(m, curr_block)
        prev_size == get_hdr_size(m, prev_block)
    IN  IF prev_alloc /\ next_alloc
        THEN LET m1 == set_curr_alloc(m, curr_block, FREE)
                 m2 == write_footer(m1, curr_block)
             IN  [mem |-> set_prev_alloc(m2, next_block, FREE), result |-> curr_block]
        ELSE IF prev_alloc /\ ~next_alloc
        THEN LET new_size == curr_size + next_size + HDR_SIZE
                 m1 == set_hdr_size(m, curr_block, new_size)
                 m2 == set_curr_alloc(m1, curr_block, FREE)
                 m3 == write_footer(m2, curr_block)
                 m4 == insert_free_list(m3, curr_block)
             IN  [mem |-> remove_free_list(m4, next_block), result |-> curr_block]
        ELSE IF ~prev_alloc /\ next_alloc
        THEN LET new_size == prev_size + curr_size + HDR_SIZE
                 m1 == set_hdr_size(m, prev_block, new_size)
                 m2 == write_footer(m1, prev_block)
                 m3 == update_bucket(m2, prev_block, prev_size, new_size)
             IN  [mem |-> set_prev_alloc(m3, next_block, FREE), result |-> prev_block]
        ELSE LET new_size == prev_size + curr_size + next_size + 2 * HDR_SIZE
                 m1 == set_hdr_size(m, prev_block, new_size)
                 m2 == write_footer(m1, prev_block)
                 m3 == update_bucket(m2, prev_block, prev_size, new_size)
             IN  [mem |-> remove_free_list(m3, next_block), result |-> prev_block]

\* mutant: a free successor that is merged into the freed block stays in
\* its bucket list
coalesce_successor_stays_indexed(m, curr_block) ==
    LET next_block == get_next_block(m, curr_block)
        prev_alloc == get_prev_alloc(m, curr_block) = ALLOC
        next_alloc == get_curr_alloc(m, next_block) = ALLOC
        curr_size == get_hdr_size(m, curr_block)
        next_size == get_hdr_size(m, next_block)
        prev_block == get_prev_block(m, curr_block)
        prev_size == get_hdr_size(m, prev_block)
    IN  IF prev_alloc /\ next_alloc
        THEN LET m1 == set_curr_alloc(m, curr_block, FREE)
                 m2 == write_footer(m1, curr_block)
                 m3 == set_prev_alloc(m2, next_block, FREE)
             IN  [mem |-> insert_free_list(m3, curr_block), result |-> curr_block]
        ELSE IF prev_alloc /\ ~next_alloc
        THEN LET new_size == curr_size + next_size + HDR_SIZE
                 m1 == set_hdr_size(m, curr_block, new_size)
                 m2 == set_curr_alloc(m1, curr_block, FREE)
                 m3 == write_footer(m2, curr_block)
             IN  [mem |-> insert_free_list(m3, curr_block), result |-> curr_block]
        ELSE IF ~prev_alloc /\ next_alloc
        THEN LET new_size == prev_size + curr_size + HDR_SIZE
                 m1 == set_hdr_size(m, prev_block, new_size)
                 m2 == write_footer(m1, prev_block)
                 m3 == update_bucket(m2, prev_block, prev_size, new_size)
             IN  [mem |-> set_prev_alloc(m3, next_block, FREE), result |-> prev_block]
        ELSE LET new_size == prev_size + curr_size + next_size + 2 * HDR_SIZE
                 m1 == set_hdr_size(m, prev_block, new_size)
                 m2 == write_footer(m1, prev_block)
             IN  [mem |-> update_bucket(m2, prev_block, prev_size, new_size),
                  result |-> prev_block]

coalesce(m, curr_block) ==
    LET next_block == get_next_block(m, curr_block)
        prev_alloc == get_prev_alloc(m, curr_block) = ALLOC
        next_alloc == get_curr_alloc(m, next_block) = ALLOC
        curr_size == get_hdr_size(m, curr_block)
        next_size == get_hdr_size(m, next_block)
        prev_block == get_prev_block(m, curr_block)
        prev_size == get_hdr_size(m, prev_block)
    IN  IF prev_alloc /\ next_alloc
        THEN LET m1 == set_curr_alloc(m, curr_block, FREE)
                 m2 == write_footer(m1, curr_block)
                 m3 == set_prev_alloc(m2, next_block, FREE)
             IN  [mem |-> insert_free_list(m3, curr_block), result |-> curr_block]
        ELSE IF prev_alloc /\ ~next_alloc
        THEN LET new_size == curr_size + next_size + HDR_SIZE
                 m1 == set_hdr_size(m, curr_block, new_size)
                 m2 == set_curr_alloc(m1, curr_block, FREE)
                 m3 == write_footer(m2, curr_block)
                 m4 == insert_free_list(m3, curr_block)
             IN  [mem |-> remove_free_list(m4, next_block), result |-> curr_block]
        ELSE IF ~prev_alloc /\ next_alloc
        THEN LET new_size == prev_size + curr_size + HDR_SIZE
                 m1 == set_hdr_size(m, prev_block, new_size)
                 m2 == write_footer(m1, prev_block)
                 m3 == update_bucket(m2, prev_block, prev_size, new_size)
             IN  [mem |-> set_prev_alloc(m3, next_block, FREE), result |-> prev_block]
        ELSE LET new_size == prev_size + curr_size + next_size + 2 * HDR_SIZE
                 m1 == set_hdr_size(m, prev_block, new_size)
                 m2 == write_footer(m1, prev_block)
                 m3 == update_bucket(m2, prev_block, prev_size, new_size)
             IN  [mem |-> remove_free_list(m3, next_block), result |-> prev_block]

\* mutant: the block is freed and indexed without looking at its neighbours
myfree_no_coalesce(m, ptr) ==
    IF ptr = NULL THEN m
    ELSE LET m1 == set_curr_alloc(m, ptr, FREE)
             m2 == write_footer(m1, ptr)
             m3 == set_prev_alloc(m2, get_next_block(m2, ptr), FREE)
         IN  insert_free_list(m3, ptr)

myfree(m, ptr) == IF ptr = NULL THEN m ELSE coalesce(m, ptr).mem

Min(a, b) == IF a < b THEN a ELSE b

\* mutant: the old block is freed although no new block was obtained
myrealloc_copy_frees_on_failure(r, oldptr, n) ==
    IF r.ret = NULL THEN [r EXCEPT !.mem = myfree(r.mem, oldptr)]
    ELSE [r EXCEPT !.mem = myfree(memcpy(r.mem, r.ret, oldptr, n), oldptr)]

\* myrealloc, lines 672-676: r is what mymalloc did and returned
myrealloc_copy(r, oldptr, n) ==
    IF r.ret = NULL THEN r
    ELSE [r EXCEPT !.mem = myfree(memcpy(r.mem, r.ret, oldptr, n), oldptr)]

\* mutant: a free successor is never absorbed; a block that has to grow is
\* always moved
myrealloc_never_absorbs(m, seg, oldptr, newsz, grant, libc) ==
    IF oldptr = NULL
    THEN [aborted |-> FALSE] @@ mymalloc(m, seg, newsz, grant)
    ELSE IF newsz = 0
    THEN [mem |-> libc_free(m, oldptr, libc), seg |-> seg, ret |-> NULL,
          aborted |-> (libc = "abort")]
    ELSE IF adjust_block_size(newsz) < get_hdr_size(m, oldptr)
    THEN [mem |-> m, seg |-> seg, ret |-> oldptr, aborted |-> FALSE]
    ELSE [aborted |-> FALSE]
         @@ myrealloc_copy(mymalloc(m, seg, newsz * REALLOC_MULT, grant),
                           oldptr, Min(get_hdr_size(m, oldptr), newsz))

\* mutant: a successor is absorbed also when the combined size is exactly
\* the adjusted size
myrealloc_absorbs_exact_fit(m, seg, oldptr, newsz, grant, libc) ==
    IF oldptr = NULL
    THEN [aborted |-> FALSE] @@ mymalloc(m, seg, newsz, grant)
    ELSE IF newsz = 0
    THEN [mem |-> libc_free(m, oldptr, libc), seg |-> seg, ret |-> NULL,
          aborted |-> (libc = "abort")]
    ELSE
    LET oldsz == get_hdr_size(m, oldptr)
        next_block == get_next_block(m, oldptr)
        combinedsz == oldsz + get_hdr_size(m, next_block) + HDR_SIZE
        absorbed == LET m1 == set_prev_alloc(m, get_next_block(m, next_block), ALLOC)
                        m2 == set_hdr_size(m1, oldptr, combinedsz)
                        m3 == write_footer(m2, oldptr)
                    IN  remove_free_list(m3, next_block)
    IN  IF adjust_block_size(newsz) < oldsz
        THEN [mem |-> m, seg |-> seg, ret |-> oldptr, aborted |-> FALSE]
        ELSE IF get_curr_alloc(m, next_block) = FREE
                /\ adjust_block_size(newsz) <= combinedsz
        THEN [mem |-> absorbed, seg |-> seg, ret |-> oldptr, aborted |-> FALSE]
        ELSE [aborted |-> FALSE]
             @@ myrealloc_copy(mymalloc(m, seg, newsz * REALLOC_MULT, grant),
                               oldptr, Min(oldsz, newsz))

\* mutant: a shrinking realloc cuts the block down to the adjusted size
myrealloc_shrink_trims(m, seg, oldptr, newsz, grant, libc) ==
    IF oldptr = NULL
    THEN [aborted |-> FALSE] @@ mymalloc(m, seg, newsz, grant)
    ELSE IF newsz = 0
    THEN [mem |-> libc_free(m, oldptr, libc), seg |-> seg, ret |-> NULL,
          aborted |-> (libc = "abort")]
    ELSE
    LET oldsz == get_hdr_size(m, oldptr)
        next_block == get_next_block(m, oldptr)
        combinedsz == oldsz + get_hdr_size(m, next_block) + HDR_SIZE
        absorbed == LET m1 == set_prev_alloc(m, get_next_block(m, next_block), ALLOC)
                        m2 == set_hdr_size(m1, oldptr, combinedsz)
                        m3 == write_footer(m2, oldptr)
                    IN  remove_free_list(m3, next_block)
    IN  IF adjust_block_size(newsz) < oldsz
        THEN [mem |-> set_hdr_size(m, oldptr, adjust_block_size(newsz)),
              seg |-> seg, ret |-> oldptr, aborted |-> FALSE]
        ELSE IF get_curr_alloc(m, next_block) = FREE
                /\ adjust_block_size(newsz) < combinedsz
        THEN [mem |-> absorbed, seg |-> seg, ret |-> oldptr, aborted |-> FALSE]
        ELSE [aborted |-> FALSE]
             @@ myrealloc_copy(mymalloc(m, seg, newsz * REALLOC_MULT, grant),
                               oldptr, Min(oldsz, newsz))

myrealloc(m, seg, oldptr, newsz, grant, libc) ==
    IF oldptr = NULL
    THEN [aborted |-> FALSE] @@ mymalloc(m, seg, newsz, grant)
    ELSE IF newsz = 0
    THEN [mem |-> libc_free(m, oldptr, libc), seg |-> seg, ret |-> NULL,
          aborted |-> (libc = "abort")]
    ELSE
    LET oldsz == get_hdr_size(m, oldptr)
        next_block == get_next_block(m, oldptr)
        combinedsz == oldsz + get_hdr_size(m, next_block) + HDR_SIZE
        absorbed == LET m1 == set_prev_alloc(m, get_next_block(m, next_block), ALLOC)
                        m2 == set_hdr_size(m1, oldptr, combinedsz)
                        m3 == write_footer(m2, oldptr)
                    IN  remove_free_list(m3, next_block)
    IN  IF adjust_block_size(newsz) < oldsz
        THEN [mem |-> m, seg |-> seg, ret |-> oldptr, aborted |-> FALSE]
        ELSE IF get_curr_alloc(m, next_block) = FREE
                /\ adjust_block_size(newsz) < combinedsz
        THEN [mem |-> absorbed, seg |-> seg, ret |-> oldptr, aborted |-> FALSE]
        ELSE [aborted |-> FALSE]
             @@ myrealloc_copy(mymalloc(m, seg, newsz * REALLOC_MULT, grant),
                               oldptr, Min(oldsz, newsz))

(***************************************************************************)
(* The program: a client that initialises the heap once and then calls     *)
(* mymalloc, myfree and myrealloc on pointers it holds, and stores into    *)
(* the payloads of the blocks it holds.                                    *)
(***************************************************************************)
Call(op, ptr, size) == [op |-> op, ptr |-> ptr, size |-> size]

Init ==
    /\ mem = [a \in {FreeListAddr(b) : b \in 0 .. NBUCKETS - 1} |-> NULL]
    /\ heap_start = NULL
    /\ seg_size = 0
    /\ junk \in JunkValues
    /\ live = {}
    /\ leaked = {}
    /\ phase = "start"
    /\ call = Call("none", NULL, 0)
    /\ ret = NULL
    /\ nstores = 0
    /\ nops = 0
    /\ hist = <<>>

MyInit ==
    /\ phase = "start"
    /\ \E grant \in BOOLEAN :
         LET base == init_heap_segment(INIT_NPAGES, grant)
         IN  IF base = NULL
             THEN /\ phase' = "failed"
                  /\ ret' = 0
                  /\ UNCHANGED <<mem, heap_start, seg_size>>
             ELSE /\ phase' = "ready"
                  /\ ret' = 1
                  /\ heap_start' = base
                  /\ seg_size' = INIT_NPAGES * PAGE_SIZE
                  /\ mem' = myinit(mem, base)
    /\ call' = Call("myinit", NULL, 0)
    /\ UNCHANGED <<junk, live, leaked, nstores, nops, hist>>

\* one call of mymalloc by the client, and what the client then holds
MallocCall(requestedsz, grant) ==
    /\ \E r \in {mymalloc(mem, seg_size, requestedsz, grant)} :
           /\ mem' = r.mem
           /\ seg_size' = r.seg
           /\ ret' = r.ret
           /\ live' = IF r.ret # NULL THEN live \cup {r.ret} ELSE live
    /\ call' = Call("mymalloc", NULL, requestedsz)
    /\ nops' = nops + 1
    /\ UNCHANGED <<heap_start, junk, leaked, phase, nstores>>

MyMalloc ==
    /\ phase = "ready"
    /\ nops < MaxOps
    /\ \E requestedsz \in ReqSizes \cup {0}, grant \in BOOLEAN :
         /\ requestedsz # 0 => Cardinality(live \cup leaked) < MaxLive
         /\ MallocCall(requestedsz, grant)
    /\ UNCHANGED hist

\* one call of myfree by the client
FreeCall(ptr) ==
    /\ mem' = myfree(mem, ptr)
    /\ live' = live \ {ptr}
    /\ call' = Call("myfree", ptr, 0)
    /\ ret' = NULL
    /\ nops' = nops + 1
    /\ UNCHANGED <<heap_start, seg_size, junk, leaked, phase, nstores>>

MyFree ==
    /\ phase = "ready"
    /\ nops < MaxOps
    /\ \E ptr \in live \cup {NULL} : FreeCall(ptr)
    /\ UNCHANGED hist

\* one call of myrealloc by the client, and what the client then holds
ReallocCall(oldptr, newsz, grant, libc) ==
    /\ \E r \in {myrealloc(mem, seg_size, oldptr, newsz, grant, libc)} :
           /\ mem' = r.mem
           /\ seg_size' = r.seg
           /\ ret' = r.ret
           /\ phase' = IF r.aborted THEN "aborted" ELSE phase
           /\ live' = IF oldptr = NULL
                      THEN (IF r.ret # NULL THEN live \cup {r.ret} ELSE live)
                      ELSE IF newsz = 0 THEN live \ {oldptr}
                      ELSE IF r.ret = NULL THEN live
                      ELSE (live \ {oldptr}) \cup {r.ret}
           /\ leaked' = IF oldptr # NULL /\ newsz = 0 /\ ~r.aborted
                        THEN leaked \cup {oldptr} ELSE leaked
    /\ call' = Call("myrealloc", oldptr, newsz)
    /\ nops' = nops + 1
    /\ UNCHANGED <<heap_start, junk, nstores>>

MyRealloc ==
    /\ phase = "ready"
    /\ nops < MaxOps
    /\ \E oldptr \in live \cup {NULL}, newsz \in ReqSizes \cup {0},
          grant \in BOOLEAN, libc \in LibcFreeOutcomes :
         /\ (oldptr = NULL \/ newsz # 0) => libc = "return"
         /\ (oldptr = NULL /\ newsz # 0) => Cardinality(live \cup leaked) < MaxLive
         /\ ReallocCall(oldptr, newsz, grant, libc)
    /\ UNCHANGED hist

\* the word offsets of a payload the client stores to: the first word, the
\* word holding bytes 16..19 and the last word of the block
StoreOffsets(m, bp) ==
    {off \in {0, 16, get_hdr_size(m, bp) - 4} : off + 4 <= get_hdr_size(m, bp)}

ClientStore ==
    /\ phase = "ready"
    /\ nops < MaxOps
    /\ nops' = nops + 1
    /\ nstores < MaxStores
    /\ \E bp \in live :
         \E off \in StoreOffsets(mem, bp), v \in StoreValues :
            /\ mem' = put(mem, bp + off, v)
            /\ call' = Call("store", bp, off)
    /\ ret' = NULL
    /\ nstores' = nstores + 1
    /\ UNCHANGED <<heap_start, seg_size, junk, live, leaked, phase, hist>>

Next == MyInit \/ MyMalloc \/ MyFree \/ MyRealloc \/ ClientStore

Spec == Init /\ [][Next]_vars

(***************************************************************************)
(* A client that follows a script and keeps a log, hist, of the calls it   *)
(* made and of what they returned.  A script step names its pointer        *)
(* argument by the position in the log of the mymalloc that returned it.   *)
(***************************************************************************)
Step(op, arg, size) == [op |-> op, arg |-> arg, size |-> size]

Logged(c, r) == [op |-> c.op, ptr |-> c.ptr, size |-> c.size, ret |-> r]

\* S1: allocate 16 bytes
ScenarioS1 == <<Step("mymalloc", 0, 16)>>

\* S2: allocate 24, 24, 24 and free the second
ScenarioS2 ==
    <<Step("mymalloc", 0, 24), Step("mymalloc", 0, 24), Step("mymalloc", 0, 24),
      Step("myfree", 2, 0)>>

\* S3: A = 40, B = 40, C = 40; free B; free A
ScenarioS3 ==
    <<Step("mymalloc", 0, 40), Step("mymalloc", 0, 40), Step("mymalloc", 0, 40),
      Step("myfree", 2, 0), Step("myfree", 1, 0)>>

\* S5: A = 64, B = 64; free B; realloc A to 100
ScenarioS5 ==
    <<Step("mymalloc", 0, 64), Step("mymalloc", 0, 64), Step("myfree", 2, 0),
      Step("myrealloc", 1, 100)>>

\* S5 with the two allocations made in the other order: B = 64, A = 64;
\* free B; realloc A to 100
ScenarioS5BFirst ==
    <<Step("mymalloc", 0, 64), Step("mymalloc", 0, 64), Step("myfree", 1, 0),
      Step("myrealloc", 2, 100)>>

\* realloc at the edge of absorption: B = 64, A = 64; free B; realloc A to
\* 140, the size A and B have together; then realloc the result to 200
ScenarioAbsorbExact ==
    <<Step("mymalloc", 0, 64), Step("mymalloc", 0, 64), Step("myfree", 1, 0),
      Step("myrealloc", 2, 140), Step("myrealloc", 4, 200)>>

\* six free blocks in one bucket with the only large one freed first: a
\* block of size 28, then five of size 20, each followed by a block that
\* stays allocated; the rest of the heap is allocated whole; the six are
\* freed in the order of their allocation; then 24 bytes (size 28) are asked
ScenarioCutoff ==
    <<Step("mymalloc", 0, 24), Step("mymalloc", 0, 1),
      Step("mymalloc", 0, 18), Step("mymalloc", 0, 1),
      Step("mymalloc", 0, 18), Step("mymalloc", 0, 1),
      Step("mymalloc", 0, 18), Step("mymalloc", 0, 1),
      Step("mymalloc", 0, 18), Step("mymalloc", 0, 1),
      Step("mymalloc", 0, 18), Step("mymalloc", 0, 12044),
      Step("myfree", 1, 0), Step("myfree", 3, 0), Step("myfree", 5, 0),
      Step("myfree", 7, 0), Step("myfree", 9, 0), Step("myfree", 11, 0),
      Step("mymalloc", 0, 24)>>

Scripts ==
    {ScenarioS1, ScenarioS2, ScenarioS3, ScenarioS5, ScenarioS5BFirst,
     ScenarioAbsorbExact, ScenarioCutoff}

\* the call a script step stands for, given the log so far
Resolve(step, h) ==
    Call(step.op, IF step.arg = 0 THEN NULL ELSE h[step.arg].ret, step.size)

\* the log h is the beginning of a run of script s
Follows(h, s) ==
    /\ Len(h) <= Len(s)
    /\ \A i \in 1 .. Len(h) : Call(h[i].op, h[i].ptr, h[i].size) = Resolve(s[i], h)

\* the client has run script s to its end, and nothing after it
Ran(s) == phase = "ready" /\ Len(hist) = Len(s) /\ Follows(hist, s)

ScriptedCalls(h) ==
    {Resolve(s[Len(h) + 1], h) : s \in {t \in Scripts : Len(t) > Len(h) /\ Follows(h, t)}}

\* S6: allocate until mymalloc returns null, free every successful
\* allocation in reverse order of allocation, then allocate the largest
\* size that had succeeded
ExhaustSizes == {4000, 8000}

SetMax(S) == CHOOSE x \in S : \A y \in S : y <= x

\* every call of h is a successful mymalloc of an S6 size
Allocating(h) ==
    \A i \in 1 .. Len(h) :
        h[i].op = "mymalloc" /\ h[i].size \in ExhaustSizes /\ h[i].ret # NULL

\* h begins with k - 1 successful allocations and the refused k-th one,
\* followed by frees of the allocations, last allocated first
Exhausted(h, k) ==
    /\ k >= 2
    /\ k <= Len(h)
    /\ Allocating(SubSeq(h, 1, k - 1))
    /\ h[k].op = "mymalloc" /\ h[k].size \in ExhaustSizes /\ h[k].ret = NULL
    /\ \A i \in k + 1 .. Len(h) :
          i <= 2 * k - 1 => h[i].op = "myfree" /\ h[i].ptr = h[2 * k - i].ret

LargestSucceeded(h, k) == SetMax({h[i].size : i \in 1 .. k - 1})

ExhaustCalls(h) ==
    IF Allocating(h) THEN {Call("mymalloc", NULL, s) : s \in ExhaustSizes}
    ELSE UNION {IF ~Exhausted(h, k) \/ Len(h) > 2 * k - 1 THEN {}
                ELSE IF Len(h) < 2 * k - 1
                THEN {Call("myfree", h[2 * k - 1 - Len(h)].ret, 0)}
                ELSE {Call("mymalloc", NULL, LargestSucceeded(h, k))}
                : k \in 1 .. Len(h)}

ScenarioCalls(h) == ScriptedCalls(h) \cup ExhaustCalls(h)

ScenarioMalloc ==
    /\ phase = "ready"
    /\ \E c \in ScenarioCalls(hist), grant \in BOOLEAN :
         /\ c.op = "mymalloc"
         /\ MallocCall(c.size, grant)
         /\ hist' = Append(hist, Logged(c, ret'))

ScenarioFree ==
    /\ phase = "ready"
    /\ \E c \in ScenarioCalls(hist) :
         /\ c.op = "myfree"
         /\ FreeCall(c.ptr)
         /\ hist' = Append(hist, Logged(c, ret'))

ScenarioRealloc ==
    /\ phase = "ready"
    /\ \E c \in ScenarioCalls(hist), grant \in BOOLEAN, libc \in LibcFreeOutcomes :
         /\ c.op = "myrealloc"
         /\ (c.ptr = NULL \/ c.size # 0) => libc = "return"
         /\ ReallocCall(c.ptr, c.size, grant, libc)
         /\ hist' = Append(hist, Logged(c, ret'))

ScenarioNext == MyInit \/ ScenarioMalloc \/ ScenarioFree \/ ScenarioRealloc

ScenarioSpec == Init /\ [][ScenarioNext]_vars

(***************************************************************************)
(* get_bucket_num on its own: a caller that passes it a size and keeps     *)
(* the result.                                                             *)
(***************************************************************************)
MaxSmallSize == 64          \* every size from 1 up to this one is passed

\* the small sizes, the sizes around every power of two, and the largest
\* 31-bit size
BucketSizes ==
    (1 .. MaxSmallSize)
      \cup UNION {{2 ^ k - 1, 2 ^ k, 2 ^ k + 1} : k \in 3 .. 30}
      \cup {2147483647}

GetBucketNum ==
    /\ \E size \in BucketSizes :
         /\ call' = Call("get_bucket_num", NULL, size)
         /\ ret' = get_bucket_num(size)
    /\ UNCHANGED <<mem, heap_start, seg_size, junk, live, leaked, phase, nstores,
                   nops, hist>>

BucketNext == GetBucketNum

BucketSpec == Init /\ [][BucketNext]_vars

(***************************************************************************)
(* adjust_block_size alone: the function applied to one request size       *)
(***************************************************************************)
MaxRequest == 96            \* every request from 1 up to this one is passed

\* the small requests, the requests around every power of two up to 2^30
AdjustRequests ==
    (1 .. MaxRequest) \cup UNION {{2 ^ k - 1, 2 ^ k, 2 ^ k + 1} : k \in 7 .. 30}

AdjustBlockSize ==
    /\ \E requestedsz \in AdjustRequests :
         /\ call' = Call("adjust_block_size", NULL, requestedsz)
         /\ ret' = adjust_block_size(requestedsz)
    /\ UNCHANGED <<mem, heap_start, seg_size, junk, live, leaked, phase, nstores,
                   nops, hist>>

AdjustNext == AdjustBlockSize

AdjustSpec == Init /\ [][AdjustNext]_vars

(***************************************************************************)
(* Heap and list walks (the walks of print_entire_heap and                 *)
(* print_free_lists), used to state the invariants.                        *)
(***************************************************************************)
\* the blocks met from bp by bp -> bp + size + 4, ending with the block of
\* size 0 (or with the first bp that left the segment)
RECURSIVE heap_walk(_, _, _)
heap_walk(m, bp, fuel) ==
    IF fuel = 0 \/ bp >= heap_start + seg_size \/ get_hdr_size(m, bp) = 0
    THEN <<bp>>
    ELSE <<bp>> \o heap_walk(m, get_next_block(m, bp), fuel - 1)

\* no more than this many blocks fit into the segment
MaxBlocks == seg_size \div (MIN_BLK_SZ + HDR_SIZE)

Walk == heap_walk(mem, heap_start + HDR_FTR_SIZE, MaxBlocks + 1)

Blocks == LET w == Walk IN SubSeq(w, 1, Len(w) - 1)

Epilogue == LET w == Walk IN w[Len(w)]

IsFree(bp) == get_curr_alloc(mem, bp) = FREE

FreeBlocks == LET bs == Blocks IN {bs[i] : i \in {j \in 1 .. Len(bs) : IsFree(bs[j])}}

\* the nodes of a bucket list in list order
RECURSIVE list_walk(_, _, _)
list_walk(m, curr, fuel) ==
    IF curr = NULL \/ fuel = 0 THEN <<>>
    ELSE <<curr>> \o list_walk(m, get_next(m, curr), fuel - 1)

BucketList(b) == list_walk(mem, free_list_at(mem, b), MaxBlocks + 1)

BucketLists == [b \in 0 .. NBUCKETS - 1 |-> BucketList(b)]

Occurrences(l, x) == Cardinality({i \in 1 .. Len(l) : l[i] = x})

\* the nodes met from `curr' by following prev up to the head slot
RECURSIVE back_walk(_, _, _, _)
back_walk(m, curr, head, fuel) ==
    IF curr = head \/ curr = NULL \/ fuel = 0 THEN <<>>
    ELSE <<curr>> \o back_walk(m, get_prev(m, curr), head, fuel - 1)

Buckets == 0 .. NBUCKETS - 1

SeqSet(s) == {s[i] : i \in 1 .. Len(s)}

Initialised == phase \in {"ready", "aborted"}

(***************************************************************************)
(* Claims                                                                  *)
(***************************************************************************)

\* C1: coalescing completeness -- in every state reached after myinit and
\* any sequence of mymalloc, myfree and myrealloc calls, no two blocks that
\* are adjacent on the heap walk are both free.
C1_NoAdjacentFree ==
    Initialised =>
        LET bs == Blocks
        IN  \A i \in 1 .. Len(bs) - 1 : ~(IsFree(bs[i]) /\ IsFree(bs[i + 1]))

\* a myfree has just merged the freed block into its free predecessor
C1_Witness ==
    /\ phase = "ready"
    /\ call.op = "myfree"
    /\ call.ptr # NULL
    /\ call.ptr \notin SeqSet(Blocks)
    /\ Len(Blocks) >= 2

\* C2: index consistency -- every free block of the heap walk is a node of
\* exactly one bucket list, once, and that list is get_bucket_num(size);
\* every node of bucket list b is a block of the heap walk that is marked
\* free and has get_bucket_num(size) = b.
C2_IndexConsistent ==
    Initialised =>
        LET free == FreeBlocks
            lists == BucketLists
        IN  /\ \A bp \in free :
                  LET own == get_bucket_num(get_hdr_size(mem, bp))
                  IN  \A b \in Buckets :
                         Occurrences(lists[b], bp) = IF b = own THEN 1 ELSE 0
            /\ \A b \in Buckets :
                  \A bp \in SeqSet(lists[b]) :
                     /\ bp \in free
                     /\ get_bucket_num(get_hdr_size(mem, bp)) = b

\* free blocks are indexed under two different buckets after a call that
\* took a block out of a list or moved one between lists
C2_Witness ==
    /\ phase = "ready"
    /\ call.op \in {"myfree", "myrealloc"}
    /\ Cardinality(FreeBlocks) >= 2
    /\ Cardinality({get_bucket_num(get_hdr_size(mem, bp)) : bp \in FreeBlocks}) >= 2

\* C3: prev_alloc consistency -- the prev_alloc bit of every block of the
\* heap walk, the epilogue included, equals the curr_alloc bit in the header
\* of the block before it; the first block has prev_alloc = allocated.
C3_PrevAllocConsistent ==
    Initialised =>
        LET w == Walk
        IN  /\ get_prev_alloc(mem, w[1]) = ALLOC
            /\ \A i \in 1 .. Len(w) - 1 :
                  get_prev_alloc(mem, w[i + 1]) = get_curr_alloc(mem, w[i])

\* an allocated block directly follows a free one, and the last block
\* before the epilogue is allocated
C3_Witness ==
    /\ phase = "ready"
    /\ call.op = "mymalloc"
    /\ ret # NULL
    /\ Len(Blocks) >= 3
    /\ \E i \in 1 .. Len(Blocks) - 1 :
          IsFree(Blocks[i]) /\ get_prev_alloc(mem, Blocks[i + 1]) = FREE
    /\ get_prev_alloc(mem, Epilogue) = ALLOC

\* C4: non-overlap -- the byte ranges [bp, bp + size) of the blocks the
\* client holds are pairwise disjoint, and each lies inside the segment
\* between the 8-byte pad at its start and the epilogue header at its end.
C4_NonOverlap ==
    Initialised =>
        /\ \A p \in live :
              /\ p >= heap_start + ALIGNMENT
              /\ p + get_hdr_size(mem, p) <= heap_start + seg_size - HDR_SIZE
        /\ \A p \in live : \A q \in live :
              p < q => p + get_hdr_size(mem, p) <= q

\* two blocks are held, one of them in pages the heap was extended by
C4_Witness ==
    /\ phase = "ready"
    /\ Cardinality(live) = 2
    /\ seg_size > INIT_NPAGES * PAGE_SIZE
    /\ \E p \in live : p > heap_start + INIT_NPAGES * PAGE_SIZE

\* C5: list well-formedness -- every bucket list is finite and acyclic; the
\* prev of its first node is the address of the bucket's head slot; for
\* adjacent nodes X -> Y, prev(Y) = X; the last node's next is null; the
\* walk back from the last node by prev visits the same nodes.
C5_ListsWellFormed ==
    Initialised =>
        \A b \in Buckets :
            LET l == BucketList(b)
                back == IF l = <<>> THEN <<>>
                        ELSE back_walk(mem, l[Len(l)], FreeListAddr(b), MaxBlocks + 1)
            IN  /\ Len(l) <= MaxBlocks
                /\ \A i \in 1 .. Len(l) : \A j \in 1 .. Len(l) : l[i] = l[j] => i = j
                /\ l # <<>> => get_prev(mem, l[1]) = FreeListAddr(b)
                /\ \A i \in 1 .. Len(l) - 1 : get_prev(mem, l[i + 1]) = l[i]
                /\ l # <<>> => get_next(mem, l[Len(l)]) = NULL
                /\ Len(back) = Len(l)
                /\ SeqSet(back) = SeqSet(l)

\* some bucket list has two nodes
C5_Witness ==
    /\ phase = "ready"
    /\ \E b \in Buckets : Len(BucketList(b)) >= 2

\* C6: header/footer agreement -- the footer word of every free block, the
\* last 4 bytes of the block, equals its header word bit for bit.
C6_FooterIsHeader ==
    Initialised =>
        \A bp \in FreeBlocks :
            get(mem, bp + get_hdr_size(mem, bp) - FTR_SIZE) = get(mem, get_hdr_addr(bp))

\* a free block that grew by a merge: its footer is no longer where the
\* footer of the block freed first was written
C6_Witness ==
    /\ phase = "ready"
    /\ call.op = "myfree"
    /\ \E bp \in FreeBlocks :
          /\ bp # call.ptr
          /\ bp < call.ptr
          /\ call.ptr < bp + get_hdr_size(mem, bp)

\* C7 as stated: the walk from heap_start + 8 ends at the epilogue, whose
\* header is the last word of the segment and records size 0, allocated;
\* "equivalently" 8 + sum over blocks of (size + 4) + 4 = segment size.
RECURSIVE SumSpans(_)
SumSpans(bs) ==
    IF bs = <<>> THEN 0
    ELSE get_hdr_size(mem, Head(bs)) + HDR_SIZE + SumSpans(Tail(bs))

WalkEndsAtEpilogue(w) ==
    /\ Len(w) <= MaxBlocks + 1
    /\ get_hdr_addr(w[Len(w)]) = heap_start + seg_size - HDR_SIZE
    /\ get_hdr_size(mem, w[Len(w)]) = 0
    /\ get_curr_alloc(mem, w[Len(w)]) = ALLOC

C7_TilingAsStated ==
    Initialised =>
        /\ WalkEndsAtEpilogue(Walk)
        /\ ALIGNMENT + SumSpans(Blocks) + HDR_SIZE = seg_size

\* C7 (amended): the walk from heap_start + 8 visits finitely many blocks
\* and ends at the epilogue, whose header is the last word of the segment
\* and records size 0, allocated; 8 + sum over blocks of (size + 4) equals
\* the segment size (the 8-byte pad holds the first header, and each
\* block's 4 extra bytes are the header that follows it, the epilogue
\* header included), also after every heap extension.
C7_Tiling ==
    Initialised =>
        /\ WalkEndsAtEpilogue(Walk)
        /\ ALIGNMENT + SumSpans(Blocks) = seg_size

\* the heap has been extended and is tiled by several blocks
C7_Witness ==
    /\ phase = "ready"
    /\ seg_size > INIT_NPAGES * PAGE_SIZE
    /\ Len(Blocks) >= 3

\* C8: alignment -- with an 8-byte-aligned segment base, every non-null
\* pointer returned by mymalloc or myrealloc is a multiple of 8.
C8_Aligned ==
    (call.op \in {"mymalloc", "myrealloc"} /\ ret # NULL) => ret % ALIGNMENT = 0

\* myrealloc has moved a block and returned the new pointer
C8_Witness ==
    /\ HeapBase % ALIGNMENT = 0
    /\ call.op = "myrealloc"
    /\ call.ptr # NULL
    /\ ret # NULL
    /\ ret # call.ptr

\* C9: size sufficiency -- when mymalloc(r), r > 0, returns a non-null p,
\* the size in p's header is >= adjust(r), hence >= r, and p's block is
\* marked allocated.
C9_SizeSufficient ==
    (call.op = "mymalloc" /\ call.size > 0 /\ ret # NULL) =>
        /\ get_hdr_size(mem, ret) >= adjust_block_size(call.size)
        /\ get_hdr_size(mem, ret) >= call.size
        /\ get_curr_alloc(mem, ret) = ALLOC

\* mymalloc handed out a whole free block that is larger than the adjusted
\* request
C9_Witness ==
    /\ call.op = "mymalloc"
    /\ ret # NULL
    /\ get_hdr_size(mem, ret) > adjust_block_size(call.size)

\* C10: realloc preservation -- when myrealloc(p, newsz), p held and
\* newsz > 0, returns a non-null q, the first min(oldsz, newsz) bytes at q
\* are the bytes that were at p before the call, and the payload of every
\* other block the client holds is unchanged.
Byte(m, a) == (get(m, a - (a % 4)) \div (256 ^ (a % 4))) % 256

SamePayload(bp) ==
    \A a \in {x \in DOMAIN mem \cup DOMAIN mem' :
                 x >= bp /\ x < bp + get_hdr_size(mem, bp)} :
        get(mem', a) = get(mem, a)

\* the offsets below n of the bytes of the words mapped at bp; the other
\* bytes of the first n at bp are junk
MappedOffsets(m, bp, n) ==
    {(a - bp) + k : a \in {x \in DOMAIN m : x >= bp /\ x < bp + n}, k \in 0 .. 3}
      \cap (0 .. n - 1)

\* bytes that are mapped neither at p before nor at q after the step are
\* junk at both places, hence equal
SamePrefix(p, q, n) ==
    \A i \in MappedOffsets(mem, p, n) \cup MappedOffsets(mem', q, n) :
        Byte(mem', q + i) = Byte(mem, p + i)

C10_ReallocStep ==
    (call'.op = "myrealloc" /\ call'.ptr # NULL /\ call'.size > 0 /\ ret' # NULL) =>
        /\ SamePrefix(call'.ptr, ret', Min(get_hdr_size(mem, call'.ptr), call'.size))
        /\ \A o \in live \ {call'.ptr} : SamePayload(o)

C10_ReallocPreserves == [][C10_ReallocStep]_vars

\* myrealloc moved a block the client had stored into, the stored word is
\* at the new place, and the client holds another block as well
C10_Witness ==
    /\ call.op = "myrealloc"
    /\ call.ptr # NULL
    /\ ret # NULL
    /\ ret # call.ptr
    /\ Cardinality(live) = 2
    /\ \E off \in {0, 16} : get(mem, ret + off) \in StoreValues

\* C11: idempotent shrink -- for a pointer p the client holds and newsz > 0
\* whose adjusted size is smaller than or equal to the current size of p's
\* block, myrealloc(p, newsz) returns p itself and p stays allocated at the
\* same address.
C11_ShrinkStep ==
    (/\ call'.op = "myrealloc"
     /\ call'.ptr # NULL
     /\ call'.size > 0
     /\ adjust_block_size(call'.size) <= get_hdr_size(mem, call'.ptr)) =>
        /\ ret' = call'.ptr
        /\ call'.ptr \in live'
        /\ get_curr_alloc(mem', call'.ptr) = ALLOC

C11_IdempotentShrink == [][C11_ShrinkStep]_vars

\* C12: zero-size realloc -- for a pointer p the client holds,
\* myrealloc(p, 0) returns null and frees p through the allocator's own
\* free path: afterwards p lies in a block that is marked free on the heap
\* walk and is a node of the bucket list of its size.
C12_ZeroReallocFrees ==
    (call.op = "myrealloc" /\ call.ptr # NULL /\ call.size = 0) =>
        /\ phase = "ready"
        /\ ret = NULL
        /\ \E bp \in FreeBlocks :
              /\ bp <= call.ptr
              /\ call.ptr < bp + get_hdr_size(mem, bp)
              /\ Occurrences(BucketList(get_bucket_num(get_hdr_size(mem, bp))), bp) = 1

\* C13: resource exhaustion leaves the state intact -- when the segment
\* provider refuses an extension, mymalloc returns null with every header,
\* footer, link and head slot unchanged; when myrealloc reaches its
\* fallback and the inner allocation fails, it returns null with oldptr
\* still held and allocated, its size and content and the rest of the heap
\* and of the index unchanged.
C13_ExhaustionStep ==
    /\ (call'.op = "mymalloc" /\ call'.size > 0 /\ ret' = NULL) =>
          /\ mem' = mem
          /\ seg_size' = seg_size
          /\ live' = live
    /\ (call'.op = "myrealloc" /\ call'.size > 0 /\ ret' = NULL) =>
          /\ mem' = mem
          /\ seg_size' = seg_size
          /\ live' = live
          /\ call'.ptr # NULL =>
                /\ call'.ptr \in live'
                /\ get_curr_alloc(mem', call'.ptr) = ALLOC
                /\ get_hdr_size(mem', call'.ptr) = get_hdr_size(mem, call'.ptr)

C13_ExhaustionIntact == [][C13_ExhaustionStep]_vars

\* myrealloc fell back to mymalloc, the provider refused, and the block is
\* still held beside another one
C13_Witness ==
    /\ call.op = "myrealloc"
    /\ call.ptr # NULL
    /\ call.size > 0
    /\ ret = NULL
    /\ call.ptr \in live
    /\ Cardinality(live) = 2

\* C14 as stated (scenario S5): after myinit, A = mymalloc(64), B =
\* mymalloc(64), myfree(B), myrealloc(A, 100): the returned pointer is A,
\* the free successor of A having been absorbed, and the block's size is
\* >= adjust(100).
C14_S5AsStated ==
    Ran(ScenarioS5) =>
        /\ hist[4].ret = hist[1].ret
        /\ get_hdr_size(mem, hist[4].ret) >= adjust_block_size(100)

\* C14 (amended): a block is carved from the high end of the free block,
\* so the block allocated first is the successor of the block allocated
\* second.  With B = mymalloc(64) allocated first and A = mymalloc(64)
\* second, myfree(B), myrealloc(A, 100) returns A, whose block has absorbed
\* B and has size 68 + 68 + 4 = 140 >= adjust(100).  With A allocated
\* first, as S5 is written, A's successor is the epilogue and B merges with
\* the free block below it: myrealloc(A, 100) returns a new block of size
\* adjust(100) = 100 directly below A, and A is freed.
C14_S5Absorbs ==
    /\ Ran(ScenarioS5BFirst) =>
          LET A == hist[2].ret
              B == hist[1].ret
          IN  /\ A # NULL
              /\ hist[4].ret = A
              /\ get_curr_alloc(mem, A) = ALLOC
              /\ get_hdr_size(mem, A) = 140
              /\ get_hdr_size(mem, A) >= adjust_block_size(100)
              /\ A < B /\ B < A + get_hdr_size(mem, A)
              /\ FreeBlocks = {heap_start + ALIGNMENT}
    /\ Ran(ScenarioS5) =>
          LET A == hist[1].ret
              q == hist[4].ret
          IN  /\ q # NULL
              /\ q # A
              /\ get_curr_alloc(mem, q) = ALLOC
              /\ get_hdr_size(mem, q) = adjust_block_size(100)
              /\ get_next_block(mem, q) = A
              /\ A \in FreeBlocks

\* the second-allocated block was grown over the freed first-allocated one
C14_Witness ==
    /\ Ran(ScenarioS5BFirst)
    /\ hist[4].ret = hist[2].ret
    /\ live = {hist[2].ret}

\* C15 as stated (scenario S3): after myinit, A = mymalloc(40), B =
\* mymalloc(40), C = mymalloc(40), myfree(B), myfree(A): a single free block
\* of size 40 + 40 + 4 = 84 covers the address range where A and B were.
C15_S3AsStated ==
    Ran(ScenarioS3) =>
        LET A == hist[1].ret
            B == hist[2].ret
        IN  \E bp \in FreeBlocks :
               /\ get_hdr_size(mem, bp) = 84
               /\ bp <= B /\ bp <= A
               /\ B + 40 <= bp + get_hdr_size(mem, bp)
               /\ A + 40 <= bp + get_hdr_size(mem, bp)

\* C15 (amended): a request of 40 bytes gets a block of adjust(40) = 44
\* bytes, so after the second free a single free block of size
\* 44 + 44 + 4 = 92 exists where A and B were: it starts at B, the lower of
\* the two, and ends where A ended; C, below it, is still allocated.
C15_S3Merged ==
    Ran(ScenarioS3) =>
        LET A == hist[1].ret
            B == hist[2].ret
            C == hist[3].ret
        IN  /\ adjust_block_size(40) = 44
            /\ B \in FreeBlocks
            /\ get_hdr_size(mem, B) = 92
            /\ B < A
            /\ B + get_hdr_size(mem, B) = A + adjust_block_size(40)
            /\ A \notin SeqSet(Blocks)
            /\ get_next_block(mem, C) = B /\ ~IsFree(C)
            /\ FreeBlocks = {heap_start + ALIGNMENT, B}

\* B was freed between two allocated blocks and A was then merged into it
C15_Witness ==
    /\ Ran(ScenarioS3)
    /\ hist[2].ret \in FreeBlocks
    /\ live = {hist[3].ret}

\* C16 as stated (scenario S1): after myinit with 3 pages of 4096 bytes,
\* the first call mymalloc(16) returns an 8-byte-aligned pointer whose block
\* has size 16, and the remaining free block is the trailing block, at a
\* higher address than the allocation, of size 3*4096 - 8 - 4 - 16 - 4 =
\* 12256.
C16_S1AsStated ==
    Ran(ScenarioS1) =>
        LET p == hist[1].ret
        IN  /\ p # NULL
            /\ p % ALIGNMENT = 0
            /\ get_hdr_size(mem, p) = 16
            /\ \E bp \in FreeBlocks : bp > p /\ get_hdr_size(mem, bp) = 12256

\* C16 (amended): the first call mymalloc(16) returns an 8-byte-aligned
\* pointer whose block has size adjust(16) = 20 and is the last block
\* before the epilogue; the remaining free block is the leading block, at
\* heap_start + 8 below the allocation, of size 3*4096 - 8 - 4 - 20 - 4 =
\* 12252.
C16_S1FirstAllocation ==
    Ran(ScenarioS1) =>
        LET p == hist[1].ret
            rest == heap_start + ALIGNMENT
        IN  /\ seg_size = INIT_NPAGES * PAGE_SIZE
            /\ p # NULL
            /\ p % ALIGNMENT = 0
            /\ get_curr_alloc(mem, p) = ALLOC
            /\ get_hdr_size(mem, p) = 20
            /\ get_next_block(mem, p) = Epilogue
            /\ FreeBlocks = {rest}
            /\ rest < p
            /\ get_next_block(mem, rest) = p
            /\ get_hdr_size(mem, rest)
                  = INIT_NPAGES * PAGE_SIZE - ALIGNMENT - HDR_SIZE - 20 - HDR_SIZE
            /\ get_hdr_size(mem, rest) = 12252

\* the first allocation was split off the initial free block
C16_Witness ==
    /\ Ran(ScenarioS1)
    /\ live = {hist[1].ret}
    /\ Len(Blocks) = 2

\* C17 as stated (scenario S2): after myinit, three blocks are allocated
\* with requests 24, 24, 24 and the second is freed: the heap walk finds
\* the freed block free with an allocated block immediately before and
\* after it, its size field is 24, and it is a member of bucket list 4.
C17_S2AsStated ==
    Ran(ScenarioS2) =>
        LET B == hist[2].ret
            bs == Blocks
        IN  /\ \E i \in 2 .. Len(bs) - 1 :
                  bs[i] = B /\ IsFree(B) /\ ~IsFree(bs[i - 1]) /\ ~IsFree(bs[i + 1])
            /\ get_hdr_size(mem, B) = 24
            /\ B \in SeqSet(BucketList(4))

\* C17 (amended): the heap walk finds the freed block free with an
\* allocated block immediately before and after it; its size field is
\* adjust(24) = 28, and it is the one member of bucket list
\* 30 - clz(28) - 2 = 1.
C17_S2MiddleFreed ==
    Ran(ScenarioS2) =>
        LET B == hist[2].ret
            bs == Blocks
        IN  /\ \E i \in 2 .. Len(bs) - 1 :
                  bs[i] = B /\ IsFree(B) /\ ~IsFree(bs[i - 1]) /\ ~IsFree(bs[i + 1])
            /\ get_hdr_size(mem, B) = 28
            /\ BucketList(1) = <<B>>
            /\ \A b \in Buckets \ {1} : B \notin SeqSet(BucketList(b))

\* the second of the three blocks is free and the other two are held
C17_Witness ==
    /\ Ran(ScenarioS2)
    /\ live = {hist[1].ret, hist[3].ret}
    /\ hist[2].ret \in FreeBlocks

\* C18 (scenario S6, recovery after exhaustion): with a segment provider
\* that eventually refuses extension, after allocating until mymalloc returns
\* null and then freeing every successful allocation in reverse order of
\* allocation, everything freed has coalesced back into one free block that
\* spans the segment, and a subsequent mymalloc of the largest request size
\* that had succeeded returns non-null.
C18_RecoveryAfterExhaustion ==
    \A k \in 2 .. Len(hist) :
        /\ (Exhausted(hist, k) /\ Len(hist) = 2 * k - 1) =>
              /\ Blocks = <<heap_start + ALIGNMENT>>
              /\ IsFree(heap_start + ALIGNMENT)
              /\ get_hdr_size(mem, heap_start + ALIGNMENT)
                    = seg_size - ALIGNMENT - HDR_SIZE
        /\ (/\ Exhausted(hist, k)
            /\ Len(hist) = 2 * k
            /\ hist[2 * k].op = "mymalloc"
            /\ hist[2 * k].size = LargestSucceeded(hist, k)) =>
              hist[2 * k].ret # NULL

\* at least three allocations of both sizes succeeded, the heap having been
\* extended, before the provider refused; all were freed and the largest
\* size was allocated again
C18_Witness ==
    \E k \in 4 .. Len(hist) :
        /\ Exhausted(hist, k)
        /\ Len(hist) = 2 * k
        /\ {hist[i].size : i \in 1 .. k - 1} = ExhaustSizes
        /\ seg_size > INIT_NPAGES * PAGE_SIZE
        /\ hist[2 * k].op = "mymalloc"
        /\ hist[2 * k].ret # NULL

\* C19 as stated: for all sizes s >= 1 (as a 32-bit value) the bucket
\* function get_bucket_num(s) = 30 - clz(s) - 2 yields a value in [0, 29],
\* values >= 29 being clamped to 29, so it is always a valid index into the
\* 30 head slots.
C19_BucketRangeAsStated ==
    (call.op = "get_bucket_num" /\ call.size >= 1) => ret \in 0 .. NBUCKETS - 1

\* C19 (amended): for all sizes s >= 8, every block size (>= 12) among
\* them, get_bucket_num(s) = 30 - clz(s) - 2 is the b in [0, 28] with
\* 2^(b+3) <= s < 2^(b+4), a valid index into the 30 head slots; nothing is
\* clamped, and for 1 <= s <= 7 the value is negative.
C19_BucketRange ==
    call.op = "get_bucket_num" =>
        /\ call.size >= 8 =>
              /\ ret \in 0 .. NBUCKETS - 2
              /\ call.size \div (2 ^ (ret + 3)) = 1
        /\ call.size \in 1 .. 7 => ret < 0

\* the bucket of the largest 31-bit size has been computed
C19_Witness ==
    /\ call.op = "get_bucket_num"
    /\ call.size = 2147483647
    /\ ret = 27

\* C20: benign requests are no-ops -- in any reachable state mymalloc(0)
\* returns null and myfree(null) returns, and in both cases no header,
\* footer, link, head slot or segment size changes; the segment provider is
\* not called (the segment does not grow even when the provider would have
\* granted pages).
C20_NoOpStep ==
    /\ (call'.op = "mymalloc" /\ call'.size = 0) =>
          /\ ret' = NULL
          /\ mem' = mem
          /\ seg_size' = seg_size
          /\ live' = live
    /\ (call'.op = "myfree" /\ call'.ptr = NULL) =>
          /\ mem' = mem
          /\ seg_size' = seg_size
          /\ live' = live

C20_BenignNoOps == [][C20_NoOpStep]_vars

\* mymalloc(0) was called on a heap with a held block and two free blocks
C20_Witness ==
    /\ call.op = "mymalloc"
    /\ call.size = 0
    /\ ret = NULL
    /\ live # {}
    /\ Cardinality(FreeBlocks) >= 2

\* C21: forward absorption -- for a held pointer p with block size oldsz and
\* a = adjust(newsz) >= oldsz: if the block right after p is free with size
\* s and a < oldsz + s + 4, myrealloc(p, newsz) returns p, p's block stays
\* allocated with size exactly oldsz + s + 4, the successor is in no bucket
\* list any more and the block after it has prev_alloc = allocated; when
\* a = oldsz + s + 4 exactly (or more), or the successor is allocated,
\* nothing is absorbed and the fallback runs: a null result leaves the heap
\* as it was, a non-null result is another block of size >= a and p's
\* block has been freed.
C21_AbsorbStep ==
    LET p == call'.ptr
        a == adjust_block_size(call'.size)
        oldsz == get_hdr_size(mem, p)
        succ == get_next_block(mem, p)
        s == get_hdr_size(mem, succ)
    IN  (call'.op = "myrealloc" /\ p # NULL /\ call'.size > 0 /\ a >= oldsz) =>
          IF get_curr_alloc(mem, succ) = FREE /\ a < oldsz + s + HDR_SIZE
          THEN /\ ret' = p
               /\ p \in live'
               /\ get_curr_alloc(mem', p) = ALLOC
               /\ get_hdr_size(mem', p) = oldsz + s + HDR_SIZE
               /\ succ \notin SeqSet(Blocks')
               /\ \A b \in Buckets : succ \notin SeqSet(BucketList(b)')
               /\ get_prev_alloc(mem', succ + s + HDR_SIZE) = ALLOC
               /\ seg_size' = seg_size
          ELSE /\ ret' # p
               /\ ret' = NULL => mem' = mem /\ seg_size' = seg_size /\ p \in live'
               /\ ret' # NULL =>
                     /\ get_curr_alloc(mem', ret') = ALLOC
                     /\ get_hdr_size(mem', ret') >= a
                     /\ p \notin live'
                     /\ \E bp \in FreeBlocks' :
                           bp <= p /\ p + oldsz <= bp + get_hdr_size(mem', bp)

C21_ForwardAbsorption == [][C21_AbsorbStep]_vars

\* a realloc to exactly the combined size moved the block, and a second
\* realloc grew the moved block over its free successor
C21_Witness ==
    /\ Ran(ScenarioAbsorbExact)
    /\ hist[4].ret # NULL
    /\ hist[4].ret # hist[2].ret
    /\ hist[5].ret = hist[4].ret
    /\ get_hdr_size(mem, hist[5].ret) = 284

\* C22: four-case coalescing -- for a held pointer p, after myfree(p) the
\* free block holding p's former range starts at p's address-predecessor q
\* when q was free and at p otherwise, and its size is size(p) plus
\* size + 4 of each free address-neighbour; that block is in the index
\* exactly once, under the bucket of its new size, and a successor that
\* was merged is in no bucket list any more.
C22_CoalesceStep ==
    LET p == call'.ptr
        prev_free == get_prev_alloc(mem, p) = FREE
        q == get_prev_block(mem, p)
        succ == get_next_block(mem, p)
        next_free == get_curr_alloc(mem, succ) = FREE
        base == IF prev_free THEN q ELSE p
        new_size == get_hdr_size(mem, p)
                    + (IF prev_free THEN get_hdr_size(mem, q) + HDR_SIZE ELSE 0)
                    + (IF next_free THEN get_hdr_size(mem, succ) + HDR_SIZE ELSE 0)
    IN  (call'.op = "myfree" /\ p \in live) =>
          /\ get_curr_alloc(mem', base) = FREE
          /\ get_hdr_size(mem', base) = new_size
          /\ \A b \in Buckets :
                \E l \in {list_walk(mem', free_list_at(mem', b), MaxBlocks' + 1)} :
                  /\ Occurrences(l, base)
                       = IF b = get_bucket_num(new_size) THEN 1 ELSE 0
                  /\ next_free => succ \notin SeqSet(l)
                  /\ prev_free => p \notin SeqSet(l)
          /\ \E w \in {heap_walk(mem', heap_start + HDR_FTR_SIZE, MaxBlocks' + 1)} :
                /\ base \in SeqSet(w)
                /\ next_free => succ \notin SeqSet(w)
                /\ prev_free => p \notin SeqSet(w)
          /\ get_prev_alloc(mem', base + new_size + HDR_SIZE) = FREE

C22_FourCaseCoalescing == [][C22_CoalesceStep]_vars

\* a block was freed between two free blocks: one free block spans the
\* heap, it starts below the freed pointer, and the freed block's old
\* header shows that it ended before the epilogue
C22_Witness ==
    /\ phase = "ready"
    /\ call.op = "myfree"
    /\ call.ptr # NULL
    /\ Len(Blocks) = 1
    /\ IsFree(Blocks[1])
    /\ Blocks[1] < call.ptr
    /\ get_next_block(mem, call.ptr) < Epilogue

\* the free block a mymalloc step placed its result in, as the state
\* before the step shows it: without extension the free block that
\* contains the returned pointer; with extension the free last block grown
\* by the new bytes, or the new bytes themselves behind the old epilogue
\* header
PlacementBlocks ==
    LET nbytes == seg_size' - seg_size
        old_epilogue == heap_start + seg_size
        last == get_prev_block(mem, old_epilogue)
    IN  IF nbytes = 0
        THEN {[base |-> bp, size |-> get_hdr_size(mem, bp)] :
                bp \in {f \in FreeBlocks :
                          f <= ret' /\ ret' < f + get_hdr_size(mem, f)}}
        ELSE IF get_prev_alloc(mem, old_epilogue) = FREE
        THEN {[base |-> last, size |-> get_hdr_size(mem, last) + nbytes]}
        ELSE {[base |-> old_epilogue, size |-> nbytes - HDR_SIZE]}

\* C23: split placement -- when mymalloc places the adjusted size a in a
\* free block of size S with left = S - a - 4 >= 12, the free remainder
\* keeps the block's base (the lower address) with size left and is indexed
\* under bucket(left); the allocated block is at base + left + 4 with size
\* exactly a, curr = allocated, prev_alloc = free, the block after it has
\* prev_alloc = allocated, and base + left + 4 is returned; when left < 12
\* the whole block is consumed, keeping size S and its base address.
C23_PlaceStep ==
    LET a == adjust_block_size(call'.size)
    IN  (call'.op = "mymalloc" /\ ret' # NULL) =>
          \E blk \in PlacementBlocks :
            LET base == blk.base
                left == blk.size - a - HDR_SIZE
            IN  IF left >= MIN_BLK_SZ
                THEN /\ ret' = base + left + HDR_SIZE
                     /\ get_curr_alloc(mem', base) = FREE
                     /\ get_hdr_size(mem', base) = left
                     /\ Occurrences(
                          list_walk(mem', free_list_at(mem', get_bucket_num(left)),
                                    MaxBlocks' + 1),
                          base) = 1
                     /\ get_hdr_size(mem', ret') = a
                     /\ get_curr_alloc(mem', ret') = ALLOC
                     /\ get_prev_alloc(mem', ret') = FREE
                     /\ get_prev_alloc(mem', ret' + a + HDR_SIZE) = ALLOC
                ELSE /\ left >= -HDR_SIZE
                     /\ ret' = base
                     /\ get_hdr_size(mem', base) = blk.size
                     /\ get_curr_alloc(mem', base) = ALLOC
                     /\ get_prev_alloc(mem', base + blk.size + HDR_SIZE) = ALLOC
                     /\ base \notin SeqSet(
                          list_walk(mem', free_list_at(mem', get_bucket_num(blk.size)),
                                    MaxBlocks' + 1))

C23_SplitPlacement == [][C23_PlaceStep]_vars

\* a request was placed in a free block too small to split: the returned
\* block is larger than the adjusted size, by less than 16 bytes
C23_Witness ==
    /\ phase = "ready"
    /\ call.op = "mymalloc"
    /\ ret # NULL
    /\ get_hdr_size(mem, ret) > adjust_block_size(call.size)
    /\ get_hdr_size(mem, ret) < adjust_block_size(call.size) + MIN_BLK_SZ + HDR_SIZE

\* the indexed free blocks of size >= a
IndexedFits(a) ==
    {bp \in UNION {SeqSet(BucketList(b)) : b \in Buckets} :
        get_hdr_size(mem, bp) >= a}

\* the free blocks first_fit's bounded search looks at for size a: the
\* first BUCKET_CUTOFF nodes of every bucket from the bucket of a upward
Examined(a) ==
    UNION {{BucketList(b)[i] : i \in 1 .. Min(BUCKET_CUTOFF, Len(BucketList(b)))} :
             b \in get_bucket_num(a) .. NBUCKETS - 1}

\* C24 as stated: mymalloc(r) extends the heap only in states where the
\* free-list index holds no free block of size >= adjust(r).
C24_ExtendOnlyWhenNothingFitsAsStated ==
    [][(call'.op = "mymalloc" /\ seg_size' > seg_size) =>
          IndexedFits(adjust_block_size(call'.size)) = {}]_vars

\* C24: mymalloc(r) extends the heap only in states where no free block of
\* size >= adjust(r) is among the first 5 nodes of a bucket from the
\* bucket of adjust(r) upward; a block that fits may be indexed behind the
\* fifth node of its bucket when the heap grows.
C24_ExtendOnlyWhenSearchFails ==
    [][(call'.op = "mymalloc" /\ seg_size' > seg_size) =>
          \A bp \in Examined(adjust_block_size(call'.size)) :
              get_hdr_size(mem, bp) < adjust_block_size(call'.size)]_vars

\* the heap grew by a page for a block of size 28 while the free block of
\* size 28 was the sixth node of its bucket
C24_Witness ==
    /\ Ran(ScenarioCutoff)
    /\ hist[19].ret # NULL
    /\ \A i \in 1 .. 12 : hist[i].ret # NULL
    /\ seg_size = (INIT_NPAGES + 1) * PAGE_SIZE

\* in memory m, block bp is once in the list of the bucket of its size and
\* in no other list
IndexedOnceIn(m, bp) ==
    \A b \in Buckets :
        Occurrences(list_walk(m, free_list_at(m, b), MaxBlocks + 1), bp)
          = IF b = get_bucket_num(get_hdr_size(m, bp)) THEN 1 ELSE 0

\* C25: heap extension formatting -- when mymalloc extends the heap for
\* the adjusted size a it takes exactly nbytes = roundup(a, PAGE_SIZE), also
\* when free space ends the heap; if the old epilogue header says its
\* predecessor is free, that last block grows in place by nbytes, its footer
\* is rewritten and it is indexed under the bucket of its new size;
\* otherwise a free block of size nbytes - 4 is formed whose header is the
\* old epilogue header and it is indexed; either way the last 4 bytes of
\* the segment hold a new epilogue header and the block used for placement
\* has size >= a.
C25_ExtendStep ==
    LET a == adjust_block_size(call'.size)
        nbytes == seg_size' - seg_size
        old_epilogue == heap_start + seg_size
        new_epilogue == heap_start + seg_size'
        merged == get_prev_alloc(mem, old_epilogue) = FREE
        last == get_prev_block(mem, old_epilogue)
    IN  (call'.op = "mymalloc" /\ seg_size' # seg_size) =>
          /\ nbytes = roundup(a, PAGE_SIZE)
          /\ \E f \in {format_new_pages(mem, old_epilogue, nbytes)} :
                /\ IF merged
                   THEN /\ f.block = last
                        /\ get_hdr_size(f.mem, last)
                             = get_hdr_size(mem, last) + nbytes
                   ELSE /\ f.block = old_epilogue
                        /\ get_hdr_size(f.mem, old_epilogue) = nbytes - HDR_SIZE
                /\ get_curr_alloc(f.mem, f.block) = FREE
                /\ get(f.mem, get_ftr_addr(f.mem, f.block))
                     = get(f.mem, get_hdr_addr(f.block))
                /\ IndexedOnceIn(f.mem, f.block)
                /\ get_next_block(f.mem, f.block) = new_epilogue
                /\ get_hdr_size(f.mem, new_epilogue) = 0
                /\ get_curr_alloc(f.mem, new_epilogue) = ALLOC
                /\ get_hdr_size(f.mem, f.block) >= a
                /\ f.block <= ret'
          /\ ret' # NULL
          /\ get_hdr_size(mem', new_epilogue) = 0
          /\ get_curr_alloc(mem', new_epilogue) = ALLOC
          /\ Epilogue' = new_epilogue
          /\ get_next_block(mem', ret') = new_epilogue

C25_ExtensionFormatting == [][C25_ExtendStep]_vars

\* the heap was extended once, and the free remainder below the returned
\* block begins in the pages the heap had before: a free last block grew
\* over the new pages
C25_Witness ==
    /\ phase = "ready"
    /\ call.op = "mymalloc"
    /\ ret # NULL
    /\ seg_size = INIT_NPAGES * PAGE_SIZE
                    + roundup(adjust_block_size(call.size), PAGE_SIZE)
    /\ get_next_block(mem, ret) = Epilogue
    /\ get_prev_alloc(mem, ret) = FREE
    /\ get_prev_block(mem, ret) < heap_start + INIT_NPAGES * PAGE_SIZE
    /\ heap_start + INIT_NPAGES * PAGE_SIZE < ret

\* the sizes first_fit is asked for below: adjusted request sizes
FitTargets ==
    {adjust_block_size(r) : r \in {1, 18, 24, 64, 100, 4000, 8000, 12044, 16000}}

SetMin(S) == CHOOSE x \in S : \A y \in S : x <= y

\* the first of the first BUCKET_CUTOFF nodes of bucket b with size >= target
FirstOfFive(b, target) ==
    LET l == BucketList(b)
        fits == {i \in 1 .. Min(BUCKET_CUTOFF, Len(l)) :
                    get_hdr_size(mem, l[i]) >= target}
    IN  IF fits = {} THEN NULL ELSE l[SetMin(fits)]

\* C26: bounded first-fit -- first_fit(target) goes through the buckets
\* upward from get_bucket_num(target), looks at no more than the first 5
\* nodes of each and returns the first node looked at whose size is
\* >= target, and null when no bucket has such a node among its first 5; a
\* non-null result has size >= target and is in the index; a non-empty
\* bucket strictly above get_bucket_num(target) makes the result non-null.
C26_BoundedFirstFit ==
    phase = "ready" =>
      \A target \in FitTargets :
        LET found == first_fit(mem, target)
            yielding == {b \in get_bucket_num(target) .. NBUCKETS - 1 :
                            FirstOfFive(b, target) # NULL}
        IN  /\ found = IF yielding = {} THEN NULL
                       ELSE FirstOfFive(SetMin(yielding), target)
            /\ found # NULL => found \in IndexedFits(target)
            /\ (\E b \in get_bucket_num(target) + 1 .. NBUCKETS - 1 :
                   BucketList(b) # <<>>) => found # NULL

\* a bucket holds six free blocks, the sixth is the only indexed block of
\* size >= 28, and the search for 28 finds nothing
C26_Witness ==
    /\ phase = "ready"
    /\ \E b \in Buckets :
          /\ Len(BucketList(b)) = BUCKET_CUTOFF + 1
          /\ IndexedFits(28) = {BucketList(b)[BUCKET_CUTOFF + 1]}
    /\ first_fit(mem, 28) = NULL

\* C27: shrink never splits -- for a held pointer p with block size oldsz
\* and newsz > 0 with adjust(newsz) < oldsz, myrealloc(p, newsz) returns p
\* and changes nothing: memory, head slots and segment are as before, so
\* p's header size stays oldsz and no free block appears; and a block that
\* a later mymalloc or myrealloc hands out lies outside the whole block of
\* every pointer still held.
C27_ShrinkStep ==
    LET p == call'.ptr
    IN  /\ (/\ call'.op = "myrealloc"
             /\ p \in live
             /\ call'.size > 0
             /\ adjust_block_size(call'.size) < get_hdr_size(mem, p)) =>
               /\ ret' = p
               /\ mem' = mem
               /\ seg_size' = seg_size
               /\ live' = live
               /\ Blocks' = Blocks
               /\ BucketLists' = BucketLists
        /\ (call'.op \in {"mymalloc", "myrealloc"} /\ ret' # NULL /\ ret' \notin live) =>
               \A q \in live' \ {ret'} :
                   \/ ret' + get_hdr_size(mem', ret') <= q - HDR_SIZE
                   \/ q + get_hdr_size(mem, q) <= ret' - HDR_SIZE

C27_ShrinkNeverSplits == [][C27_ShrinkStep]_vars

\* a realloc to a smaller adjusted size returned the pointer it was given,
\* and the block is larger than the adjusted size by a whole block or more
C27_Witness ==
    /\ phase = "ready"
    /\ call.op = "myrealloc"
    /\ call.size > 0
    /\ ret = call.ptr
    /\ ret \in live
    /\ get_hdr_size(mem, ret)
         >= adjust_block_size(call.size) + HDR_SIZE + MIN_BLK_SZ

\* C28: block size shape -- after every public call, every block on the
\* heap walk other than the epilogue, free or allocated, has size >= 12 and
\* size = 4 modulo 8.
C28_BlockSizeShape ==
    phase = "ready" =>
      \A i \in 1 .. Len(Blocks) :
          /\ get_hdr_size(mem, Blocks[i]) >= MIN_BLK_SZ
          /\ get_hdr_size(mem, Blocks[i]) % ALIGNMENT = HDR_SIZE

\* the heap has been extended and holds a free block of the minimum size,
\* a held block of a size no request adjusts to, and a third block
C28_Witness ==
    /\ phase = "ready"
    /\ seg_size > INIT_NPAGES * PAGE_SIZE
    /\ Len(Blocks) >= 3
    /\ \E bp \in FreeBlocks : get_hdr_size(mem, bp) = MIN_BLK_SZ
    /\ \E bp \in live :
          get_hdr_size(mem, bp) \notin {adjust_block_size(r) : r \in ReqSizes}

\* C29: initial layout -- when the provider grants the INIT_NPAGES = 3
\* pages, myinit returns true and leaves one block before the epilogue: a
\* free block at heap_start + 8 of size 3 * PAGE_SIZE - 12 with
\* prev_alloc = allocated and a footer equal to its header, the only node
\* of the index, the other 29 head slots being null; behind it the
\* epilogue header with size 0, curr = allocated, prev_alloc = free. When
\* the provider returns null, myinit returns false.
C29_InitialLayout ==
    call.op = "myinit" =>
      IF phase = "failed" THEN ret = 0
      ELSE LET bp == heap_start + ALIGNMENT
               size == INIT_NPAGES * PAGE_SIZE - 12
           IN  /\ phase = "ready"
               /\ ret = 1
               /\ Blocks = <<bp>>
               /\ get_hdr_size(mem, bp) = size
               /\ get_curr_alloc(mem, bp) = FREE
               /\ get_prev_alloc(mem, bp) = ALLOC
               /\ get(mem, get_ftr_addr(mem, bp)) = get(mem, get_hdr_addr(bp))
               /\ \E b \in Buckets :
                     /\ free_list_at(mem, b) = bp
                     /\ get_next(mem, bp) = NULL
                     /\ \A o \in Buckets \ {b} : free_list_at(mem, o) = NULL
               /\ Epilogue = heap_start + seg_size
               /\ get_hdr_addr(Epilogue) = heap_start + INIT_NPAGES * PAGE_SIZE - HDR_SIZE
               /\ get_hdr_size(mem, Epilogue) = 0
               /\ get_curr_alloc(mem, Epilogue) = ALLOC
               /\ get_prev_alloc(mem, Epilogue) = FREE

\* myinit has returned true in a segment whose fresh pages hold non-zero
\* bytes
C29_Witness ==
    /\ call.op = "myinit"
    /\ phase = "ready"
    /\ ret = 1
    /\ junk # 0

\* C30: size adjustment -- for every request r >= 1, adjust_block_size(r)
\* is 12 when r <= 12 and otherwise r - 4 rounded up to a multiple of 8,
\* plus 4: the result is >= r, >= 12, equal to 4 modulo 8, and for r > 12
\* it exceeds r by less than 8.
C30_SizeAdjustment ==
    call.op = "adjust_block_size" =>
      /\ call.size <= 12 => ret = 12
      /\ call.size > 12 =>
            /\ ret - call.size < 8
            /\ (ret - 4) % 8 = 0
            /\ ret - 4 >= call.size - 4
            /\ ret - 4 - 8 < call.size - 4
      /\ ret >= call.size
      /\ ret >= 12
      /\ ret % 8 = 4

\* requests just above a block size were adjusted by the largest amount, 7
C30_Witness ==
    /\ call.op = "adjust_block_size"
    /\ call.size > 12
    /\ ret = call.size + 7

====
